---- MODULE Spec2Model ----
(***************************************************************************)
(* Model of src/interrupts/mod.rs: the boot-time construction of the TSS,  *)
(* GDT and IDT singletons by init, the four privileged register loads, and *)
(* the five exception handlers.  Every execution context (a CPU) has its   *)
(* own descriptor-table registers and may call init repeatedly; the three  *)
(* singletons and the stack allocator are shared.                          *)
(***************************************************************************)
EXTENDS Integers, Sequences, FiniteSets, TLC

\* ------------------------------------------------------------------ bounds
MaxCalls == 2
MaxStacks == 3
ErrCodeBits == 6

\* ----------------------------------------------------------- input domains
Contexts == {"cpu0", "cpu1"}
Ips == {1048576, 1048592}
PageFaultCodes == 0..(2 ^ ErrCodeBits - 1)
RaisedVectors == {0, 3, 6, 13, 14}
Vectors == 0..255

\* ------------------------------------------------------- program constants
DOUBLE_FAULT_IST_INDEX == 0

VARIABLES
    pc,             \* per context: position inside init
    calls,          \* per context: number of init calls started
    stack,          \* per context: result of alloc_stack in the current call
    tss,            \* per context: the reference returned by TSS.call_once
    gdt,            \* per context: the reference returned by GDT.call_once
    code_selector,  \* per context: local of init
    tss_selector,   \* per context: local of init
    loads,          \* per context: privileged loads issued by the current call
    built,          \* per context: singletons whose initializer the current call ran
    gdtr, idtr,     \* per context: descriptor-table registers
    cs, tr,         \* per context: code-segment and task registers
    cpu,            \* per context: exception state machine
    out,            \* per context: last diagnostic written to the console
    TSS, GDT, IDT,  \* the three singletons: [status, data, inits]
    nextStack       \* stack allocator: number of stacks handed out

vars == <<pc, calls, stack, tss, gdt, code_selector, tss_selector, loads,
          built, gdtr, idtr, cs, tr, cpu, out, TSS, GDT, IDT, nextStack>>

locals == <<stack, tss, gdt, code_selector, tss_selector>>
regs == <<gdtr, idtr, cs, tr>>
singletons == <<TSS, GDT, IDT>>
exc == <<cpu, out>>

\* ------------------------------------------------------------ stack allocator
\* alloc_stack(1): the top address of the k-th one-page stack (guard page below).
StackTop(k) == (k + 1) * 8192

NoStack == [tag |-> "unset", top |-> 0]

\* ------------------------------------------------------------------ TSS
\* TaskStateSegment::new(): all fields zero.
TaskStateSegmentNew == [ist |-> [i \in 0..6 |-> 0]]

\* The closure passed to TSS.call_once.
TssInitWrongSlot(top) ==
    [TaskStateSegmentNew EXCEPT !.ist[DOUBLE_FAULT_IST_INDEX + 1] = top]

TssInit(top) ==
    [TaskStateSegmentNew EXCEPT !.ist[DOUBLE_FAULT_IST_INDEX] = top]

\* ------------------------------------------------------------------ GDT
\* SegmentSelector::empty() and SegmentSelector::new(index, Ring0).
SegmentSelectorEmpty == [index |-> 0, rpl |-> 0]
SegmentSelectorNew(index) == [index |-> index, rpl |-> 0]

\* gdt::Gdt::new(): only the null descriptor, at slot 0.
GdtNew == << [kind |-> "null", base |-> ""] >>

kernel_code_segment == << [kind |-> "kernel_code", base |-> ""] >>
tss_segment(t) == << [kind |-> "tss_low", base |-> t],
                     [kind |-> "tss_high", base |-> t] >>

\* gdt::Gdt::add_entry: append one or two slots, return the selector of the first.
add_entry(g, desc) ==
    [gdt |-> g \o desc, sel |-> SegmentSelectorNew(Len(g))]

\* The descriptor in slot i of a table (slots count from 0).
GdtSlot(g, i) == g[i + 1]

\* The closure passed to GDT.call_once: the table and the two selectors.
GdtInitTssFirst ==
    LET g0 == GdtNew
        r1 == add_entry(g0, tss_segment("TSS"))
        r2 == add_entry(r1.gdt, kernel_code_segment)
    IN  [gdt |-> r2.gdt, code_selector |-> r2.sel, tss_selector |-> r1.sel]

GdtInit ==
    LET g0 == GdtNew
        r1 == add_entry(g0, kernel_code_segment)
        r2 == add_entry(r1.gdt, tss_segment("TSS"))
    IN  [gdt |-> r2.gdt, code_selector |-> r1.sel, tss_selector |-> r2.sel]

\* ------------------------------------------------------------------ IDT
EntryMissing == [present |-> FALSE, handler |-> "", variant |-> "", ist |-> 0]

\* idt::Idt::new(): 256 empty gates.
IdtNew == [v \in Vectors |-> EntryMissing]

set_handler(i, v, h) ==
    [i EXCEPT ![v] = [present |-> TRUE, handler |-> h,
                      variant |-> "no_error_code", ist |-> 0]]

set_handler_with_error_code(i, v, h) ==
    [i EXCEPT ![v] = [present |-> TRUE, handler |-> h,
                      variant |-> "with_error_code", ist |-> 0]]

\* EntryOptions::set_stack_index: the gate's 3-bit IST field holds index + 1
\* (0 means "no stack switch").
set_stack_index(i, v, index) == [i EXCEPT ![v].ist = index + 1]

\* The IST slot a gate designates, for a gate that switches stacks.
IstSlotOf(gate) == gate.ist - 1

\* The lazy_static initializer of IDT.
IdtInitNoStackSwitch ==
    LET i1 == set_handler(IdtNew, 0, "divide_by_zero_handler")
        i2 == set_handler(i1, 3, "breakpoint_handler")
        i3 == set_handler(i2, 6, "invalid_opcode_handler")
        i4 == set_handler_with_error_code(i3, 8, "double_fault_handler")
    IN  set_handler_with_error_code(i4, 14, "page_fault_handler")

IdtInitExtraGate ==
    LET i1 == set_handler(IdtNew, 0, "divide_by_zero_handler")
        i2 == set_handler(i1, 3, "breakpoint_handler")
        i3 == set_handler(i2, 6, "invalid_opcode_handler")
        i4 == set_stack_index(
                  set_handler_with_error_code(i3, 8, "double_fault_handler"),
                  8, DOUBLE_FAULT_IST_INDEX)
        i5 == set_handler_with_error_code(i4, 14, "page_fault_handler")
    IN  set_handler(i5, 13, "page_fault_handler")

IdtInitWrongVariant ==
    LET i1 == set_handler(IdtNew, 0, "divide_by_zero_handler")
        i2 == set_handler(i1, 3, "breakpoint_handler")
        i3 == set_handler(i2, 6, "invalid_opcode_handler")
        i4 == set_stack_index(
                  set_handler_with_error_code(i3, 8, "double_fault_handler"),
                  8, DOUBLE_FAULT_IST_INDEX)
    IN  set_handler(i4, 14, "page_fault_handler")

IdtInit ==
    LET i1 == set_handler(IdtNew, 0, "divide_by_zero_handler")
        i2 == set_handler(i1, 3, "breakpoint_handler")
        i3 == set_handler(i2, 6, "invalid_opcode_handler")
        i4 == set_stack_index(
                  set_handler_with_error_code(i3, 8, "double_fault_handler"),
                  8, DOUBLE_FAULT_IST_INDEX)
    IN  set_handler_with_error_code(i4, 14, "page_fault_handler")

\* Signatures of the handlers: does the handler take an error-code word?
HandlerTakesErrorCode(h) == h \in {"double_fault_handler", "page_fault_handler"}

\* The vectors for which the processor pushes an error-code word.
PushesErrorCode(v) == v \in {8, 10, 11, 12, 13, 14, 17}

\* ------------------------------------------------------------- spin::Once
OnceNew(d) == [status |-> "INCOMPLETE", data |-> d, inits |-> 0]

\* call_once: the compare-and-swap INCOMPLETE -> RUNNING that elects the builder.
OnceClaimRebuilds(o) == o.status \in {"INCOMPLETE", "COMPLETE"}

OnceClaimRacy(o) == o.status \in {"INCOMPLETE", "RUNNING"}

OnceClaim(o) == o.status = "INCOMPLETE"

\* call_once: the builder stores the value and publishes COMPLETE.
OnceStore(o, d) == [status |-> "COMPLETE", data |-> d, inits |-> o.inits + 1]

\* ------------------------------------------------------------------ Init
Running == [st |-> "Running", vec |-> 0, ip |-> 0, ec |-> 0]
NoOutput == [kind |-> "", at |-> {}, frame |-> 0, flags |-> {}]
NotLoaded == [loaded |-> FALSE, sel |-> SegmentSelectorEmpty]

Init ==
    /\ pc = [c \in Contexts |-> "idle"]
    /\ calls = [c \in Contexts |-> 0]
    /\ stack = [c \in Contexts |-> NoStack]
    /\ tss = [c \in Contexts |-> TaskStateSegmentNew]
    /\ gdt = [c \in Contexts |-> << >>]
    /\ code_selector = [c \in Contexts |-> SegmentSelectorEmpty]
    /\ tss_selector = [c \in Contexts |-> SegmentSelectorEmpty]
    /\ loads = [c \in Contexts |-> << >>]
    /\ built = [c \in Contexts |-> {}]
    /\ gdtr = [c \in Contexts |-> "boot"]
    /\ idtr = [c \in Contexts |-> "boot"]
    /\ cs = [c \in Contexts |-> NotLoaded]
    /\ tr = [c \in Contexts |-> NotLoaded]
    /\ cpu = [c \in Contexts |-> Running]
    /\ out = [c \in Contexts |-> NoOutput]
    /\ TSS = OnceNew(TaskStateSegmentNew)
    /\ GDT = OnceNew(<< >>)
    /\ IDT = OnceNew(IdtNew)
    /\ nextStack = 0


\* ------------------------------------------------------------------ init
\* A context calls init (again): the locals of the new call are fresh.
InitCall(c) ==
    /\ pc[c] \in {"idle", "done"}
    /\ cpu[c].st = "Running"
    /\ calls[c] < MaxCalls
    /\ calls' = [calls EXCEPT ![c] = @ + 1]
    /\ pc' = [pc EXCEPT ![c] = "alloc"]
    /\ stack' = [stack EXCEPT ![c] = NoStack]
    /\ tss' = [tss EXCEPT ![c] = TaskStateSegmentNew]
    /\ gdt' = [gdt EXCEPT ![c] = << >>]
    /\ code_selector' = [code_selector EXCEPT ![c] = SegmentSelectorEmpty]
    /\ tss_selector' = [tss_selector EXCEPT ![c] = SegmentSelectorEmpty]
    /\ loads' = [loads EXCEPT ![c] = << >>]
    /\ built' = [built EXCEPT ![c] = {}]
    /\ UNCHANGED <<regs, exc, singletons, nextStack>>

\* memory_controller.alloc_stack(1): a fresh stack, or None.
AllocOutcomes ==
    {[tag |-> "None", top |-> 0]} \cup
    (IF nextStack < MaxStacks
     THEN {[tag |-> "Some", top |-> StackTop(nextStack)]} ELSE {})

\* let double_fault_stack = alloc_stack(1).expect(..): None panics.
AllocStackIgnoresFailure(c) ==
    /\ pc[c] = "alloc"
    /\ \E r \in AllocOutcomes :
          /\ stack' = [stack EXCEPT ![c] = r]
          /\ nextStack' = IF r.tag = "Some" THEN nextStack + 1 ELSE nextStack
          /\ pc' = [pc EXCEPT ![c] = "tss_once"]
    /\ UNCHANGED <<calls, tss, gdt, code_selector, tss_selector, loads, built,
                   regs, exc, singletons>>

AllocStack(c) ==
    /\ pc[c] = "alloc"
    /\ \E r \in AllocOutcomes :
          /\ stack' = [stack EXCEPT ![c] = r]
          /\ nextStack' = IF r.tag = "Some" THEN nextStack + 1 ELSE nextStack
          /\ pc' = [pc EXCEPT ![c] =
                        IF r.tag = "Some" THEN "tss_once" ELSE "panicked"]
    /\ UNCHANGED <<calls, tss, gdt, code_selector, tss_selector, loads, built,
                   regs, exc, singletons>>

\* TSS.call_once(..): elect the builder, or return the built value; a caller
\* that finds the cell RUNNING spins (the action is disabled) until COMPLETE.
TssOnce(c) ==
    /\ pc[c] = "tss_once"
    /\ \/ /\ OnceClaim(TSS)
          /\ TSS' = [TSS EXCEPT !.status = "RUNNING"]
          /\ pc' = [pc EXCEPT ![c] = "tss_build"]
          /\ UNCHANGED tss
       \/ /\ ~OnceClaim(TSS)
          /\ TSS.status = "COMPLETE"
          /\ tss' = [tss EXCEPT ![c] = TSS.data]
          /\ pc' = [pc EXCEPT ![c] = "gdt_once"]
          /\ UNCHANGED TSS
    /\ UNCHANGED <<calls, stack, gdt, code_selector, tss_selector, loads, built,
                   regs, exc, GDT, IDT, nextStack>>

\* The builder runs the closure of lines 44-48 and publishes the value.
TssBuild(c) ==
    /\ pc[c] = "tss_build"
    /\ TSS' = OnceStore(TSS, TssInit(stack[c].top))
    /\ tss' = [tss EXCEPT ![c] = TSS'.data]
    /\ built' = [built EXCEPT ![c] = @ \cup {"TSS"}]
    /\ pc' = [pc EXCEPT ![c] = "gdt_once"]
    /\ UNCHANGED <<calls, stack, gdt, code_selector, tss_selector, loads,
                   regs, exc, GDT, IDT, nextStack>>

\* GDT.call_once(..): as for the TSS; the selectors stay empty unless the
\* closure runs in this call.
GdtOnce(c) ==
    /\ pc[c] = "gdt_once"
    /\ \/ /\ OnceClaim(GDT)
          /\ GDT' = [GDT EXCEPT !.status = "RUNNING"]
          /\ pc' = [pc EXCEPT ![c] = "gdt_build"]
          /\ UNCHANGED gdt
       \/ /\ ~OnceClaim(GDT)
          /\ GDT.status = "COMPLETE"
          /\ gdt' = [gdt EXCEPT ![c] = GDT.data]
          /\ pc' = [pc EXCEPT ![c] = "gdt_load"]
          /\ UNCHANGED GDT
    /\ UNCHANGED <<calls, stack, tss, code_selector, tss_selector, loads, built,
                   regs, exc, TSS, IDT, nextStack>>

\* The builder runs the closure of lines 52-57: it assigns both selectors.
GdtBuild(c) ==
    /\ pc[c] = "gdt_build"
    /\ GDT' = OnceStore(GDT, GdtInit.gdt)
    /\ gdt' = [gdt EXCEPT ![c] = GDT'.data]
    /\ code_selector' = [code_selector EXCEPT ![c] = GdtInit.code_selector]
    /\ tss_selector' = [tss_selector EXCEPT ![c] = GdtInit.tss_selector]
    /\ built' = [built EXCEPT ![c] = @ \cup {"GDT"}]
    /\ pc' = [pc EXCEPT ![c] = "gdt_load"]
    /\ UNCHANGED <<calls, stack, tss, loads, regs, exc, TSS, IDT, nextStack>>

\* gdt.load(): lgdt.
GdtLoadSkipped(c) ==
    /\ pc[c] = "gdt_load"
    /\ pc' = [pc EXCEPT ![c] = "set_cs"]
    /\ UNCHANGED <<calls, locals, loads, built, regs, exc, singletons, nextStack>>

GdtLoad(c) ==
    /\ pc[c] = "gdt_load"
    /\ gdtr' = [gdtr EXCEPT ![c] = "GDT"]
    /\ loads' = [loads EXCEPT ![c] = Append(@, "lgdt")]
    /\ pc' = [pc EXCEPT ![c] = "set_cs"]
    /\ UNCHANGED <<calls, locals, built, idtr, cs, tr, exc, singletons, nextStack>>

\* The processor's response to a fault raised inside init: the general-
\* protection vector 13 has no gate, so delivery escalates to the double
\* fault if this context's IDT is loaded, and to a triple fault otherwise.
FaultIn(c) ==
    IF idtr[c] = "IDT" /\ IDT.data[8].present
    THEN [st |-> "Handling", vec |-> 8, ip |-> 0, ec |-> 0]
    ELSE [st |-> "TripleFault", vec |-> 0, ip |-> 0, ec |-> 0]

\* set_cs(code_selector): a far return to the selector; the null selector
\* raises a general-protection fault.
SetCs(c) ==
    /\ pc[c] = "set_cs"
    /\ loads' = [loads EXCEPT ![c] = Append(@, "set_cs")]
    /\ IF code_selector[c].index = 0
       THEN /\ pc' = [pc EXCEPT ![c] = "faulted"]
            /\ cpu' = [cpu EXCEPT ![c] = FaultIn(c)]
            /\ UNCHANGED cs
       ELSE /\ pc' = [pc EXCEPT ![c] = "load_tr"]
            /\ cs' = [cs EXCEPT ![c] = [loaded |-> TRUE, sel |-> code_selector[c]]]
            /\ UNCHANGED cpu
    /\ UNCHANGED <<calls, locals, built, gdtr, idtr, tr, out, singletons, nextStack>>

\* load_tr(tss_selector): ltr; the null selector raises a fault as well.
LoadTr(c) ==
    /\ pc[c] = "load_tr"
    /\ loads' = [loads EXCEPT ![c] = Append(@, "load_tr")]
    /\ IF tss_selector[c].index = 0
       THEN /\ pc' = [pc EXCEPT ![c] = "faulted"]
            /\ cpu' = [cpu EXCEPT ![c] = FaultIn(c)]
            /\ UNCHANGED tr
       ELSE /\ pc' = [pc EXCEPT ![c] = "idt_once"]
            /\ tr' = [tr EXCEPT ![c] = [loaded |-> TRUE, sel |-> tss_selector[c]]]
            /\ UNCHANGED cpu
    /\ UNCHANGED <<calls, locals, built, gdtr, idtr, cs, out, singletons, nextStack>>

\* IDT.load(): the first dereference of the lazy static builds the table.
IdtOnce(c) ==
    /\ pc[c] = "idt_once"
    /\ \/ /\ OnceClaim(IDT)
          /\ IDT' = [IDT EXCEPT !.status = "RUNNING"]
          /\ pc' = [pc EXCEPT ![c] = "idt_build"]
       \/ /\ ~OnceClaim(IDT)
          /\ IDT.status = "COMPLETE"
          /\ pc' = [pc EXCEPT ![c] = "idt_load"]
          /\ UNCHANGED IDT
    /\ UNCHANGED <<calls, locals, loads, built, regs, exc, TSS, GDT, nextStack>>

IdtBuild(c) ==
    /\ pc[c] = "idt_build"
    /\ IDT' = OnceStore(IDT, IdtInit)
    /\ built' = [built EXCEPT ![c] = @ \cup {"IDT"}]
    /\ pc' = [pc EXCEPT ![c] = "idt_load"]
    /\ UNCHANGED <<calls, locals, loads, regs, exc, TSS, GDT, nextStack>>

\* IDT.load(): lidt; init returns.
IdtLoad(c) ==
    /\ pc[c] = "idt_load"
    /\ idtr' = [idtr EXCEPT ![c] = "IDT"]
    /\ loads' = [loads EXCEPT ![c] = Append(@, "lidt")]
    /\ pc' = [pc EXCEPT ![c] = "done"]
    /\ UNCHANGED <<calls, locals, built, gdtr, cs, tr, exc, singletons, nextStack>>


\* ------------------------------------------------------- exception delivery
\* The processor looks the vector up in the loaded IDT; a vector without a
\* gate escalates to the double fault (vector 8, error code 0).
Deliver(v, ip, ec) ==
    IF IDT.data[v].present
    THEN [st |-> "Handling", vec |-> v, ip |-> ip,
          ec |-> IF PushesErrorCode(v) THEN ec ELSE 0]
    ELSE IF IDT.data[8].present
    THEN [st |-> "Handling", vec |-> 8, ip |-> ip, ec |-> 0]
    ELSE [st |-> "TripleFault", vec |-> 0, ip |-> 0, ec |-> 0]

\* An exception is raised in code running after init has loaded the IDT.
Raise(c) ==
    /\ pc[c] = "done"
    /\ idtr[c] = "IDT"
    /\ cpu[c].st = "Running"
    /\ \E v \in RaisedVectors, ip \in Ips, ec \in PageFaultCodes :
          /\ v # 14 => ec = 0
          /\ cpu' = [cpu EXCEPT ![c] = Deliver(v, ip, ec)]
    /\ UNCHANGED <<pc, calls, locals, loads, built, regs, out, singletons, nextStack>>

\* The handler the loaded gate of the vector being handled points at.
Dispatched(c, h) ==
    /\ cpu[c].st = "Handling"
    /\ IDT.data[cpu[c].vec].handler = h

Halt(c) == [cpu EXCEPT ![c].st = "Halted"]

Diagnostic(kind, at, frame, flags) ==
    [kind |-> kind, at |-> at, frame |-> frame, flags |-> flags]

\* -------------------------------------------------------------- handlers
divide_by_zero_handler(c) ==
    /\ Dispatched(c, "divide_by_zero_handler")
    /\ out' = [out EXCEPT ![c] = Diagnostic("DIVIDE BY ZERO", {}, cpu[c].ip, {})]
    /\ cpu' = Halt(c)
    /\ UNCHANGED <<pc, calls, locals, loads, built, regs, singletons, nextStack>>

breakpoint_handler_halts(c) ==
    /\ Dispatched(c, "breakpoint_handler")
    /\ out' = [out EXCEPT ![c] =
                  Diagnostic("BREAKPOINT", {cpu[c].ip}, cpu[c].ip, {})]
    /\ cpu' = Halt(c)
    /\ UNCHANGED <<pc, calls, locals, loads, built, regs, singletons, nextStack>>

breakpoint_handler(c) ==
    /\ Dispatched(c, "breakpoint_handler")
    /\ out' = [out EXCEPT ![c] =
                  Diagnostic("BREAKPOINT", {cpu[c].ip}, cpu[c].ip, {})]
    /\ cpu' = [cpu EXCEPT ![c] = Running]
    /\ UNCHANGED <<pc, calls, locals, loads, built, regs, singletons, nextStack>>

invalid_opcode_handler(c) ==
    /\ Dispatched(c, "invalid_opcode_handler")
    /\ out' = [out EXCEPT ![c] =
                  Diagnostic("INVALID OPCODE", {cpu[c].ip}, cpu[c].ip, {})]
    /\ cpu' = Halt(c)
    /\ UNCHANGED <<pc, calls, locals, loads, built, regs, singletons, nextStack>>

\* bitflags! PageFaultErrorCode: the five flags and their bits.
PageFaultFlagBit ==
    [PROTECTION_VIOLATION |-> 0, CAUSED_BY_WRITE |-> 1, USER_MODE |-> 2,
     MALFORMED_TABLE |-> 3, INSTRUCTION_FETCH |-> 4]

BitSet(n, i) == (n \div (2 ^ i)) % 2 = 1

\* The union of all defined flags, as bits.
AllBits == 2 ^ 0 + 2 ^ 1 + 2 ^ 2 + 2 ^ 3 + 2 ^ 4

\* PageFaultErrorCode::from_bits: None when a bit outside the flags is set.
from_bits_first_match(bits) ==
    IF bits \div (AllBits + 1) = 0
    THEN [some |-> TRUE,
          flags |-> {f \in DOMAIN PageFaultFlagBit :
                        /\ BitSet(bits, PageFaultFlagBit[f])
                        /\ \A g \in DOMAIN PageFaultFlagBit :
                              BitSet(bits, PageFaultFlagBit[g]) =>
                                  PageFaultFlagBit[f] <= PageFaultFlagBit[g]}]
    ELSE [some |-> FALSE, flags |-> {}]

from_bits(bits) ==
    IF bits \div (AllBits + 1) = 0
    THEN [some |-> TRUE,
          flags |-> {f \in DOMAIN PageFaultFlagBit : BitSet(bits, PageFaultFlagBit[f])}]
    ELSE [some |-> FALSE, flags |-> {}]

\* from_bits(error_code).unwrap() is evaluated before anything is printed:
\* None panics inside the handler.
page_fault_handler(c) ==
    /\ Dispatched(c, "page_fault_handler")
    /\ IF from_bits(cpu[c].ec).some
       THEN /\ out' = [out EXCEPT ![c] =
                          Diagnostic("PAGE FAULT", {}, cpu[c].ip,
                                     from_bits(cpu[c].ec).flags)]
            /\ cpu' = Halt(c)
       ELSE /\ cpu' = [cpu EXCEPT ![c].st = "Panicked"]
            /\ UNCHANGED out
    /\ UNCHANGED <<pc, calls, locals, loads, built, regs, singletons, nextStack>>

double_fault_handler(c) ==
    /\ Dispatched(c, "double_fault_handler")
    /\ out' = [out EXCEPT ![c] = Diagnostic("DOUBLE FAULT", {}, cpu[c].ip, {})]
    /\ cpu' = Halt(c)
    /\ UNCHANGED <<pc, calls, locals, loads, built, regs, singletons, nextStack>>

\* ------------------------------------------------------------ specification
InitStep(c) ==
    \/ AllocStack(c)
    \/ TssOnce(c)
    \/ TssBuild(c)
    \/ GdtOnce(c)
    \/ GdtBuild(c)
    \/ GdtLoad(c)
    \/ SetCs(c)
    \/ LoadTr(c)
    \/ IdtOnce(c)
    \/ IdtBuild(c)
    \/ IdtLoad(c)

HandlerStep(c) ==
    \/ divide_by_zero_handler(c)
    \/ breakpoint_handler(c)
    \/ invalid_opcode_handler(c)
    \/ page_fault_handler(c)
    \/ double_fault_handler(c)

Next ==
    \E c \in Contexts :
        \/ InitCall(c)
        \/ InitStep(c)
        \/ Raise(c)
        \/ HandlerStep(c)

Spec == Init /\ [][Next]_vars

\* A processor keeps executing: the code inside init and inside a handler
\* always takes its next step.
FairSpec ==
    /\ Spec
    /\ \A c \in Contexts : WF_vars(InitStep(c)) /\ WF_vars(HandlerStep(c))


\* ==================================================================== claims
LoadOrder == <<"lgdt", "set_cs", "load_tr", "lidt">>
PastTssOnce == {"gdt_once", "gdt_build", "gdt_load", "set_cs", "load_tr",
                "idt_once", "idt_build", "idt_load", "done", "faulted"}
PastGdtOnce == PastTssOnce \ {"gdt_once", "gdt_build"}
HaltingVectors == {0, 6, 8, 14}
InstalledVectors == {0, 3, 6, 8, 14}
AllocatedTops == {StackTop(k) : k \in 0..(nextStack - 1)}

\* C1: in every call of init the privileged loads are issued in the order
\* lgdt, set_cs, load_tr, lidt (each call's loads are a prefix of that order),
\* and a context about to reload CS or TR has its GDT register pointing at the
\* built GDT.
C1_LoadOrder ==
    \A c \in Contexts :
        /\ Len(loads[c]) <= Len(LoadOrder)
        /\ \A i \in 1..Len(loads[c]) : loads[c][i] = LoadOrder[i]
        /\ pc[c] \in {"set_cs", "load_tr"} =>
              gdtr[c] = "GDT" /\ GDT.status = "COMPLETE"

C1_Witness == \E c \in Contexts : loads[c] = LoadOrder /\ pc[c] = "done"

C3_SecondCallKeepsSingletons ==
    /\ [][/\ TSS.status = "COMPLETE" => TSS' = TSS
          /\ GDT.status = "COMPLETE" => GDT' = GDT
          /\ IDT.status = "COMPLETE" => IDT' = IDT]_vars
    /\ [](\A c \in Contexts :
             calls[c] >= 2 =>
                 /\ built[c] = {}
                 /\ pc[c] \in PastTssOnce => tss[c] = TSS.data
                 /\ pc[c] \in PastGdtOnce => gdt[c] = GDT.data)

C3_Witness ==
    \E c \in Contexts :
        calls[c] = 2 /\ pc[c] \in PastGdtOnce /\ gdt[c] = GDT.data

\* C4: under every interleaving each of the TSS and GDT initializers runs at
\* most once (counting a run in progress), nobody gets past call_once before
\* the value is published, a caller that finds construction in progress cannot
\* proceed, and every context past call_once holds the one published value.
C4_OnceUnderConcurrency ==
    /\ TSS.inits + Cardinality({c \in Contexts : pc[c] = "tss_build"}) <= 1
    /\ GDT.inits + Cardinality({c \in Contexts : pc[c] = "gdt_build"}) <= 1
    /\ \A c \in Contexts :
          /\ pc[c] = "tss_once" /\ TSS.status = "RUNNING" => ~ENABLED TssOnce(c)
          /\ pc[c] = "gdt_once" /\ GDT.status = "RUNNING" => ~ENABLED GdtOnce(c)
          /\ pc[c] \in PastTssOnce =>
                TSS.status = "COMPLETE" /\ tss[c] = TSS.data
          /\ pc[c] \in PastGdtOnce =>
                GDT.status = "COMPLETE" /\ gdt[c] = GDT.data

C4_Witness ==
    \E c, d \in Contexts :
        /\ c # d
        /\ calls[c] = 1 /\ calls[d] = 1
        /\ "TSS" \in built[c]
        /\ built[d] = {}
        /\ pc[d] \in PastGdtOnce
        /\ tss[d] = tss[c] /\ gdt[d] = GDT.data

\* C5: once init has completed, the gate of vector 8 has a nonzero stack-switch
\* field designating an IST slot of the TSS that holds the top of a stack the
\* allocator handed out, and the gates of vectors 0, 3, 6 and 14 have
\* stack-switch field zero.
C5_DoubleFaultStackSwitch ==
    (\E c \in Contexts : pc[c] = "done") =>
        /\ IDT.data[8].present
        /\ IDT.data[8].ist # 0
        /\ IstSlotOf(IDT.data[8]) \in DOMAIN TSS.data.ist
        /\ TSS.data.ist[IstSlotOf(IDT.data[8])] # 0
        /\ TSS.data.ist[IstSlotOf(IDT.data[8])] \in AllocatedTops
        /\ \A v \in InstalledVectors \ {8} :
              IDT.data[v].present /\ IDT.data[v].ist = 0

C5_Witness ==
    \E c \in Contexts :
        pc[c] = "done" /\ tr[c].loaded /\ TSS.data.ist[0] = stack[c].top

\* The state the claim C6 expects at the completion of init.
RegistersReferenceTables(c) ==
    /\ gdtr[c] = "GDT" /\ GDT.status = "COMPLETE"
    /\ idtr[c] = "IDT" /\ IDT.status = "COMPLETE"
    /\ cs[c].loaded /\ cs[c].sel.index \in 0..(Len(GDT.data) - 1)
    /\ GdtSlot(GDT.data, cs[c].sel.index).kind = "kernel_code"
    /\ tr[c].loaded /\ tr[c].sel.index \in 0..(Len(GDT.data) - 1)
    /\ GdtSlot(GDT.data, tr[c].sel.index).kind = "tss_low"
    /\ \A v \in InstalledVectors : IDT.data[v].present

\* C6 (as stated): a call of init whose allocation succeeded never ends in a
\* fault, so it can complete, and at completion the registers reference the
\* singleton tables.
C6_Claim ==
    \A c \in Contexts :
        stack[c].tag = "Some" =>
            /\ pc[c] # "faulted"
            /\ pc[c] = "done" => RegistersReferenceTables(c)

\* C7: the built IDT has a gate exactly at the vectors 0, 3, 6, 8 and 14, each
\* bound to its own handler; the other 251 slots are empty.
C7_ExactlyFiveGates ==
    IDT.status = "COMPLETE" =>
        /\ \A v \in Vectors : IDT.data[v].present <=> v \in InstalledVectors
        /\ IDT.data[0].handler = "divide_by_zero_handler"
        /\ IDT.data[3].handler = "breakpoint_handler"
        /\ IDT.data[6].handler = "invalid_opcode_handler"
        /\ IDT.data[8].handler = "double_fault_handler"
        /\ IDT.data[14].handler = "page_fault_handler"

C7_Witness ==
    IDT.status = "COMPLETE" /\ \E c \in Contexts : idtr[c] = "IDT"

\* C8: every installed gate uses the with-error-code variant exactly when the
\* processor pushes an error code for its vector, and its handler takes an
\* error-code word exactly when the gate was installed with that variant.
C8_BindVariantMatches ==
    IDT.status = "COMPLETE" =>
        \A v \in Vectors :
            IDT.data[v].present =>
                /\ IDT.data[v].variant = "with_error_code" <=> PushesErrorCode(v)
                /\ IDT.data[v].variant = "no_error_code" <=> ~PushesErrorCode(v)
                /\ HandlerTakesErrorCode(IDT.data[v].handler)
                      <=> IDT.data[v].variant = "with_error_code"

C8_Witness ==
    \E c \in Contexts :
        /\ cpu[c].st = "Handling" /\ cpu[c].vec = 14 /\ cpu[c].ec # 0
        /\ IDT.data[14].variant = "with_error_code"

\* The diagnostic each halting handler prints.
DiagnosticOf(v) ==
    CASE v = 0 -> "DIVIDE BY ZERO"
      [] v = 6 -> "INVALID OPCODE"
      [] v = 8 -> "DOUBLE FAULT"
      [] v = 14 -> "PAGE FAULT"
      [] OTHER -> ""

\* C9 (as stated): the handler of vector 0, 6, 8 or 14 leaves Handling only by
\* emitting its diagnostic and entering Halted, and no step leaves Halted.
C9_Claim ==
    [][\A c \in Contexts :
          /\ (cpu[c].st = "Handling" /\ cpu[c].vec \in HaltingVectors
                  /\ cpu'[c] # cpu[c]) =>
                 /\ cpu'[c].st = "Halted"
                 /\ out'[c].kind = DiagnosticOf(cpu[c].vec)
          /\ cpu[c].st = "Halted" => cpu'[c] = cpu[c] /\ pc'[c] = pc[c]]_vars

\* C10: a breakpoint being handled leads back to Running; the step that ends
\* it prints the BREAKPOINT diagnostic with the frame's instruction pointer;
\* and no handler of another vector ever goes back to Running.
C10_BreakpointResumes ==
    /\ \A c \in Contexts :
          (cpu[c].st = "Handling" /\ cpu[c].vec = 3) ~> (cpu[c].st = "Running")
    /\ [][\A c \in Contexts :
             /\ (cpu[c].st = "Handling" /\ cpu[c].vec = 3 /\ cpu'[c] # cpu[c]) =>
                    /\ cpu'[c].st = "Running"
                    /\ out'[c].kind = "BREAKPOINT"
                    /\ out'[c].at = {cpu[c].ip}
             /\ (cpu[c].st = "Handling" /\ cpu'[c].st = "Running") =>
                    cpu[c].vec = 3]_vars

C10_Witness ==
    \E c \in Contexts :
        /\ cpu[c].st = "Running"
        /\ out[c].kind = "BREAKPOINT"
        /\ out[c].at = {1048592}


\* C11: a page fault whose error code uses only bits 0..4 ends with the PAGE
\* FAULT diagnostic listing exactly the flags of the set bits: bit 0
\* PROTECTION_VIOLATION, bit 1 CAUSED_BY_WRITE, bit 2 USER_MODE, bit 3
\* MALFORMED_TABLE, bit 4 INSTRUCTION_FETCH.
C11_DecoderReportsExactFlags ==
    \A c \in Contexts :
        (cpu[c].st = "Halted" /\ cpu[c].vec = 14 /\ cpu[c].ec < 32) =>
            /\ out[c].kind = "PAGE FAULT"
            /\ "PROTECTION_VIOLATION" \in out[c].flags <=> cpu[c].ec % 2 = 1
            /\ "CAUSED_BY_WRITE" \in out[c].flags <=> (cpu[c].ec \div 2) % 2 = 1
            /\ "USER_MODE" \in out[c].flags <=> (cpu[c].ec \div 4) % 2 = 1
            /\ "MALFORMED_TABLE" \in out[c].flags <=> (cpu[c].ec \div 8) % 2 = 1
            /\ "INSTRUCTION_FETCH" \in out[c].flags <=> (cpu[c].ec \div 16) % 2 = 1
            /\ out[c].flags \subseteq
                  {"PROTECTION_VIOLATION", "CAUSED_BY_WRITE", "USER_MODE",
                   "MALFORMED_TABLE", "INSTRUCTION_FETCH"}

C11_Witness ==
    \E c \in Contexts :
        /\ cpu[c].st = "Halted" /\ cpu[c].vec = 14 /\ cpu[c].ec = 3
        /\ out[c].flags = {"PROTECTION_VIOLATION", "CAUSED_BY_WRITE"}


\* C12: the built GDT is null, kernel code, TSS (the TSS descriptor in two
\* consecutive slots, both referencing the TSS singleton); the selectors the
\* builder got back address slot 1 and the first TSS slot; and whenever the GDT
\* initializer runs or has run, the TSS is built with IST slot 0 populated.
C12_GdtLayout ==
    /\ GDT.status = "COMPLETE" =>
          /\ [i \in 1..Len(GDT.data) |-> GDT.data[i].kind]
                = <<"null", "kernel_code", "tss_low", "tss_high">>
          /\ GdtSlot(GDT.data, 2).base = "TSS"
          /\ GdtSlot(GDT.data, 3).base = "TSS"
    /\ \A c \in Contexts :
          ("GDT" \in built[c]) =>
              /\ GdtSlot(GDT.data, code_selector[c].index).kind = "kernel_code"
              /\ GdtSlot(GDT.data, tss_selector[c].index).kind = "tss_low"
              /\ GdtSlot(GDT.data, tss_selector[c].index + 1).kind = "tss_high"
    /\ (GDT.status # "INCOMPLETE") =>
          /\ TSS.status = "COMPLETE"
          /\ TSS.data.ist[DOUBLE_FAULT_IST_INDEX] # 0

C12_Witness ==
    \E c \in Contexts :
        /\ "GDT" \in built[c]
        /\ tr[c].loaded
        /\ tr[c].sel = tss_selector[c]
        /\ Len(GDT.data) = 4


\* C13 (as stated): whenever a call of init executes set_cs or load_tr, the
\* selector it passes is the one add_entry returned for the code descriptor,
\* respectively the TSS descriptor, and is not the empty selector.
C13_Claim ==
    [][\A c \in Contexts :
          /\ (pc[c] = "set_cs" /\ pc'[c] # "set_cs") =>
                 /\ code_selector[c] = GdtInit.code_selector
                 /\ code_selector[c] # SegmentSelectorEmpty
          /\ (pc[c] = "load_tr" /\ pc'[c] # "load_tr") =>
                 /\ tss_selector[c] = GdtInit.tss_selector
                 /\ tss_selector[c] # SegmentSelectorEmpty]_vars

\* C14 (as stated): for every error code delivered with a page fault the
\* decoding does not fail: the handler never panics, and it halts with the
\* PAGE FAULT diagnostic.
C14_Claim ==
    \A c \in Contexts :
        cpu[c].vec = 14 =>
            /\ cpu[c].st # "Panicked"
            /\ cpu[c].st = "Halted" => out[c].kind = "PAGE FAULT"

\* C15: once the TSS is built no step changes its IST slot 0; the slot is
\* never zero; and among the stacks held by the calls of init it is the stack
\* of exactly the call that ran the TSS initializer.
C15_IstSlotIsBuildersStack ==
    /\ [][TSS.status = "COMPLETE" =>
             /\ TSS'.status = "COMPLETE"
             /\ TSS'.data.ist[DOUBLE_FAULT_IST_INDEX]
                   = TSS.data.ist[DOUBLE_FAULT_IST_INDEX]]_vars
    /\ [](TSS.status = "COMPLETE" =>
             /\ TSS.data.ist[DOUBLE_FAULT_IST_INDEX] # 0
             /\ TSS.data.ist[DOUBLE_FAULT_IST_INDEX] \in AllocatedTops
             /\ \A c \in Contexts :
                   stack[c].tag = "Some" =>
                       (TSS.data.ist[DOUBLE_FAULT_IST_INDEX] = stack[c].top
                            <=> "TSS" \in built[c]))

C15_Witness ==
    \E c, d \in Contexts :
        /\ c # d
        /\ TSS.status = "COMPLETE"
        /\ "TSS" \in built[c] /\ TSS.data.ist[DOUBLE_FAULT_IST_INDEX] = stack[c].top
        /\ stack[d].tag = "Some" /\ stack[d].top # stack[c].top
        /\ pc[d] \in PastTssOnce

\* C16 (as stated): init requests at most one stack from the allocator over
\* all its calls, and once the TSS is built every stack handed out is the one
\* in IST slot 0.
C16_Claim ==
    /\ nextStack <= 1
    /\ TSS.status = "COMPLETE" =>
          AllocatedTops \subseteq {TSS.data.ist[DOUBLE_FAULT_IST_INDEX]}

====
